---- MODULE Spec2Model ----
(***************************************************************************)
(* Model of the virtual shell of src/main.py (class FileSystemEmulator):   *)
(* an index built from the members of a tar archive, a session cursor      *)
(* current_path, the commands ls, cd, find and cp, the XML audit log and   *)
(* the read loop run().                                                    *)
(*                                                                         *)
(* Python strings that the code takes apart (paths, command arguments) are *)
(* sequences of one-character strings, so that rstrip, lstrip, replace,    *)
(* os.path.join, os.path.dirname, os.path.basename and the substring test  *)
(* are computed as posixpath and str compute them.  Text that the code     *)
(* only formats (messages, log details) is a record: the literal format    *)
(* string and the values substituted into it.                              *)
(***************************************************************************)
EXTENDS Integers, Sequences, FiniteSets, TLC

VARIABLES
    fs_tree,        \* self.fs_tree: the dict of load_tar_fs, in insertion order
    current_path,   \* self.current_path
    log,            \* self.root: the <action> elements of the session, in order
    log_file,       \* what prettify_log last wrote to self.log_file
    disk,           \* the real filesystem, at the destinations cp is given
    out,            \* what the last command printed (and find returned)
    status,         \* "running" | "exited" (break) | "crashed" (uncaught exception)
    reads,          \* how many lines input() has returned
    last,           \* the command line run last, and the state it started from
    prev            \* the value of last before it

vars == <<fs_tree, current_path, log, log_file, disk, out, status, reads, last, prev>>

\* ---------------------------------------------------------------- bounds

\* Number of command lines read in one session.
MaxCmds == 2

\* ------------------------------------------------- str and posixpath

SLASH == "/"
BACKSLASH == "\\"

Max(S) == CHOOSE m \in S : \A n \in S : n <= m
Min(S) == CHOOSE m \in S : \A n \in S : m <= n

\* s.rstrip(c)
rstrip(s, c) ==
    LET keep == {i \in 1..Len(s) : s[i] # c}
    IN  IF keep = {} THEN <<>> ELSE SubSeq(s, 1, Max(keep))

\* s.lstrip(c)
lstrip(s, c) ==
    LET keep == {i \in 1..Len(s) : s[i] # c}
    IN  IF keep = {} THEN <<>> ELSE SubSeq(s, Min(keep), Len(s))

\* s.replace(old, new), old and new one character each
RECURSIVE replace(_, _, _)
replace(s, old, new) ==
    IF s = <<>> THEN <<>>
    ELSE <<IF Head(s) = old THEN new ELSE Head(s)>> \o replace(Tail(s), old, new)

\* s.startswith("/")
startswith_slash(s) == s # <<>> /\ s[1] = SLASH

\* p.rfind("/") + 1: the length of the prefix of p ending at its last slash
rfind_slash(p) ==
    LET at == {i \in 1..Len(p) : p[i] = SLASH}
    IN  IF at = {} THEN 0 ELSE Max(at)

\* posixpath.dirname(p)
dirname(p) ==
    LET head == SubSeq(p, 1, rfind_slash(p))
    IN  IF head # <<>> /\ (\E i \in 1..Len(head) : head[i] # SLASH)
        THEN rstrip(head, SLASH)
        ELSE head

\* posixpath.basename(p)
basename(p) == SubSeq(p, rfind_slash(p) + 1, Len(p))

\* Mutant of join: the separator between the two parts is forgotten.
join_no_separator(a, b) ==
    IF startswith_slash(b) THEN b ELSE a \o b

\* posixpath.join(a, b)
join(a, b) ==
    IF startswith_slash(b) THEN b
    ELSE IF a = <<>> \/ a[Len(a)] = SLASH THEN a \o b
    ELSE a \o <<SLASH>> \o b

\* sub in s
contains(sub, s) ==
    \E i \in 0..(Len(s) - Len(sub)) : SubSeq(s, i + 1, i + Len(sub)) = sub

\* str(n) for n >= 0
RECURSIVE str_int(_)
str_int(n) ==
    LET digit == <<"0", "1", "2", "3", "4", "5", "6", "7", "8", "9">>[(n % 10) + 1]
    IN  IF n < 10 THEN <<digit>> ELSE str_int(n \div 10) \o <<digit>>

\* ------------------------------------------------------------- the index

\* fs[key] = member on a dict kept as a sequence of <<key, member>> pairs: an
\* existing key keeps its place and takes the new value, a new key goes last.
dict_set(fs, key, member) ==
    IF \E i \in 1..Len(fs) : fs[i].key = key
    THEN [i \in 1..Len(fs) |->
            IF fs[i].key = key THEN [key |-> key, member |-> member] ELSE fs[i]]
    ELSE Append(fs, [key |-> key, member |-> member])

\* key in fs
in_tree(fs, key) == \E i \in 1..Len(fs) : fs[i].key = key

\* fs[key]
get(fs, key) == fs[CHOOSE i \in 1..Len(fs) : fs[i].key = key].member

\* list(fs): the keys in iteration order
keys(fs) == [i \in 1..Len(fs) |-> fs[i].key]

\* load_tar_fs over tar.getmembers(): a member is [name, isdir, data]
RECURSIVE load_members(_, _)
load_members(fs, members) ==
    IF members = <<>> THEN fs
    ELSE LET m    == Head(members)
             name == replace(m.name, BACKSLASH, SLASH)
         IN  load_members(
                 dict_set(fs, rstrip(name, SLASH), [m EXCEPT !.name = name]),
                 Tail(members))

load_tar_fs(members) == load_members(<<>>, members)

\* ------------------------------------------------- messages and the log

\* An f-string: the literal format and the values substituted into it.
fmt(text, values) == [text |-> text, values |-> values]

\* log_action(action, details): one <action> element appended to self.root
\* (the timestamp is the wall clock and is left out).
log_action(lg, action, details) ==
    Append(lg, [type |-> action, details |-> details])

\* prettify_log(): the whole element tree is serialised and rewritten.
prettify_log(lg) == lg

ROOT == <<SLASH>>
DOTDOT == <<".", ".">>

\* --------------------------------------------------------------- commands
\* Each command is an operator from the state it reads to what it prints,
\* the detail it logs and the state it writes.

\* Mutant of ls_listed: every entry below the path is listed, not one level.
ls_listed_subtree(fs, normalized_path) ==
    SelectSeq(keys(fs),
              LAMBDA item :
                  /\ Len(item) > Len(normalized_path)
                  /\ SubSeq(item, 1, Len(normalized_path)) = normalized_path
                  /\ (normalized_path = <<>> \/ item[Len(normalized_path) + 1] = SLASH))

\* ls: the loop over self.fs_tree, the items it prints the basename of
ls_listed(fs, normalized_path) ==
    LET parent_dir(item) ==
            replace(dirname(rstrip(item, SLASH)), BACKSLASH, SLASH)
    IN  SelectSeq(keys(fs), LAMBDA item : parent_dir(item) = normalized_path)

\* Mutant of ls: the record holds the normalized path, not the path as given.
ls_logs_normalized(fs, cur, args) ==
    LET path == IF args = <<>> \/ args[1] = <<>> THEN cur ELSE args[1]
        normalized_path ==
            lstrip(replace(rstrip(path, SLASH), BACKSLASH, SLASH), SLASH)
        listed == ls_listed(fs, normalized_path)
    IN  [printed |-> [i \in 1..Len(listed) |->
                         fmt("{}", <<basename(rstrip(listed[i], SLASH))>>)],
         details |-> fmt("Path: {}", <<normalized_path>>)]

\* ls(path=None); args is the argument list, empty for path=None
ls(fs, cur, args) ==
    LET path == IF args = <<>> \/ args[1] = <<>> THEN cur ELSE args[1]
        normalized_path ==
            lstrip(replace(rstrip(path, SLASH), BACKSLASH, SLASH), SLASH)
        listed == ls_listed(fs, normalized_path)
    IN  [printed |-> [i \in 1..Len(listed) |->
                         fmt("{}", <<basename(rstrip(listed[i], SLASH))>>)],
         details |-> fmt("Path: {}", <<path>>)]

\* Mutant of is_dir_entry: a path with entries below it counts as a directory.
is_dir_entry_or_prefix(fs, key) ==
    \/ in_tree(fs, key) /\ get(fs, key).isdir
    \/ \E i \in 1..Len(fs) :
          /\ key # <<>>
          /\ Len(fs[i].key) > Len(key) + 1
          /\ SubSeq(fs[i].key, 1, Len(key) + 1) = key \o <<SLASH>>

\* Mutant of is_dir_entry: isdir() is not asked.
is_dir_entry_any_kind(fs, key) == in_tree(fs, key)

\* fs[key].isdir() for a key that may be missing
is_dir_entry(fs, key) == in_tree(fs, key) /\ get(fs, key).isdir

\* Mutant of cd_up: at root the move is clamped and reported as a success.
cd_up_clamped(cur) ==
    LET d  == replace(dirname(rstrip(cur, SLASH)), BACKSLASH, SLASH)
        np == IF cur # ROOT /\ d # <<>> THEN d ELSE ROOT
    IN  [current_path |-> np,
         printed |-> <<fmt("Changed directory to {}", <<np>>)>>,
         details |-> fmt("Path: {}", <<np>>)]

\* Mutant of cd_up: the empty parent of a top-level directory is kept.
cd_up_keeps_empty(cur) ==
    IF cur # ROOT
    THEN LET np == replace(dirname(rstrip(cur, SLASH)), BACKSLASH, SLASH)
         IN  [current_path |-> np,
              printed |-> <<fmt("Changed directory to {}", <<np>>)>>,
              details |-> fmt("Path: {}", <<np>>)]
    ELSE [current_path |-> cur,
          printed |-> <<fmt("Already at the root directory", <<>>)>>,
          details |-> fmt("Failed to move up from root", <<>>)]

\* cd(path=None), the branch path == ".."
cd_up(cur) ==
    IF cur # ROOT
    THEN LET d  == replace(dirname(rstrip(cur, SLASH)), BACKSLASH, SLASH)
             np == IF d # <<>> THEN d ELSE ROOT
         IN  [current_path |-> np,
              printed |-> <<fmt("Changed directory to {}", <<np>>)>>,
              details |-> fmt("Path: {}", <<np>>)]
    ELSE [current_path |-> cur,
          printed |-> <<fmt("Already at the root directory", <<>>)>>,
          details |-> fmt("Failed to move up from root", <<>>)]

\* cd: new_path of an absolute or a relative argument
cd_new_path(cur, path) ==
    IF startswith_slash(path)
    THEN lstrip(path, SLASH)
    ELSE rstrip(replace(join(cur, path), BACKSLASH, SLASH), SLASH)

\* cd(path=None), the branch path != ".."
cd_to(fs, cur, path) ==
    LET normalized_new_path == cd_new_path(cur, path)
        stripped == lstrip(normalized_new_path, SLASH)
        moved(np) == [current_path |-> np,
                      printed |-> <<fmt("Changed directory to {}", <<np>>)>>,
                      details |-> fmt("Path: {}", <<np>>)]
    IN  IF is_dir_entry(fs, normalized_new_path) THEN moved(normalized_new_path)
        ELSE IF is_dir_entry(fs, stripped) THEN moved(stripped)
        ELSE [current_path |-> cur,
              printed |-> <<fmt("No such directory: {}", <<path>>)>>,
              details |-> fmt("Failed to change directory to {}", <<path>>)]

\* cd(path=None); args is the argument list, empty for path=None
cd(fs, cur, args) ==
    LET path == IF args = <<>> THEN ROOT ELSE args[1]
    IN  IF path = DOTDOT THEN cd_up(cur) ELSE cd_to(fs, cur, path)

\* Mutant of find_found: the whole path is searched, not its basename.
find_found_whole_path(fs, search_name) ==
    SelectSeq(keys(fs), LAMBDA item : contains(search_name, item))

\* find: the list found
find_found(fs, search_name) ==
    SelectSeq(keys(fs), LAMBDA item : contains(search_name, basename(item)))

\* find(search_name)
find(fs, search_name) ==
    LET found == find_found(fs, search_name)
    IN  IF found # <<>>
        THEN [printed |-> [i \in 1..Len(found) |-> fmt("{}", <<found[i]>>)],
              details |-> fmt("Search: {}, Results: {}", <<search_name, str_int(Len(found))>>),
              returned |-> found]
        ELSE [printed |-> <<fmt("No files found matching: {}", <<search_name>>)>>,
              details |-> fmt("Search: {}, No results", <<search_name>>),
              returned |-> found]

\* Mutant of File: the destination is created and nothing is written to it.
File_left_empty(bytes) == [kind |-> "file", bytes |-> <<>>]

\* The real filesystem at one path: a file with its bytes, nothing yet, or a
\* path under which no file can be created (open(..., 'wb') raises OSError).
File(bytes) == [kind |-> "file", bytes |-> bytes]
Absent == [kind |-> "absent", bytes |-> <<>>]
Uncreatable == [kind |-> "uncreatable", bytes |-> <<>>]

\* Mutant of exists: the destination is never found to exist.
exists_never(dk, destination) == FALSE

\* os.path.exists(destination)
exists(dk, destination) == dk[destination].kind = "file"

\* cp: the source looked up in the index
cp_source(source) == lstrip(source, SLASH)

\* cp(source, destination); raised is TRUE when open() raises out of cp
cp(fs, dk, source, destination) ==
    LET normalized_source == cp_source(source)
        quiet(p, d) == [disk |-> dk, printed |-> <<p>>, details |-> <<d>>,
                        raised |-> FALSE]
    IN  IF ~in_tree(fs, normalized_source)
        THEN quiet(fmt("Source file not found: {}", <<source>>),
                   fmt("Failed to copy from {} to {}", <<source, destination>>))
        ELSE IF get(fs, normalized_source).isdir
        THEN quiet(fmt("Source is a directory, not a file: {}", <<source>>),
                   fmt("Failed to copy directory {} to {}", <<source, destination>>))
        ELSE IF exists(dk, destination)
        THEN quiet(fmt("Destination already exists: {}", <<destination>>),
                   fmt("Failed to copy to {} as it already exists", <<destination>>))
        ELSE IF dk[destination].kind = "uncreatable"
        THEN [disk |-> dk, printed |-> <<>>, details |-> <<>>, raised |-> TRUE]
        ELSE [disk |-> [dk EXCEPT ![destination] =
                            File(get(fs, normalized_source).data)],
              printed |-> <<fmt("File copied from {} to {}", <<source, destination>>)>>,
              details |-> <<fmt("Copied from {} to {}", <<source, destination>>)>>,
              raised |-> FALSE]

\* ----------------------------------------------------------- the session

Dir(name) == [name |-> name, isdir |-> TRUE, data |-> <<>>]
Reg(name, data) == [name |-> name, isdir |-> FALSE, data |-> data]

\* The archives a session is started on, as tar.getmembers() yields them.
\* The first has a directory b at the root and another under a, and a file f
\* at the root and another under a; directory names come with and without
\* the trailing slash.
ArchiveNested ==
    << Dir(<<"a", "/">>),
       Dir(<<"a", "/", "b", "/">>),
       Reg(<<"f">>, <<1>>),
       Reg(<<"a", "/", "b", "/", "f">>, <<2>>),
       Dir(<<"b">>),
       Reg(<<"b", "/", "a">>, <<3>>),
       Reg(<<"a", "/", "f">>, <<4, 4>>) >>

\* The second has no member for the directory a (only for a/b below it), has
\* the member f twice and a file whose name holds "ab" past its first letter.
ArchiveImplicit ==
    << Dir(<<"a", "/", "b", "/">>),
       Reg(<<"a", "/", "b", "/", "f">>, <<5>>),
       Reg(<<"f">>, <<6>>),
       Reg(<<"f", "a", "b">>, <<>>),
       Reg(<<"f">>, <<7, 7>>) >>

Archives == {ArchiveNested, ArchiveImplicit}

\* Destinations given to cp: a path where nothing exists, an existing file,
\* and a path inside a directory that does not exist.
DestNew == <<"o">>
DestOld == <<"e">>
DestBad == <<"n", "/", "o">>
OldBytes == <<9>>

InitialDisk ==
    (DestNew :> Absent) @@ (DestOld :> File(OldBytes)) @@ (DestBad :> Uncreatable)

\* The command words of run()
LS == <<"l", "s">>
CD == <<"c", "d">>
FIND == <<"f", "i", "n", "d">>
CP == <<"c", "p">>
EXIT == <<"e", "x", "i", "t">>

\* A line as run() splits it: cmd[0] and cmd[1:]; the empty line has neither.
Line(command, args) == [command |-> command, args |-> args]
EmptyLine == Line(<<>>, <<>>)

LsLines ==
    { Line(LS, a) : a \in { <<>>, << <<"b">> >>, << <<"/", "a">> >>, << <<"x">> >>,
                            << <<"a">>, <<"b">> >> } }

CdLines ==
    { Line(CD, a) : a \in { <<>>, <<DOTDOT>>, << <<"a">> >>, << <<"b">> >>,
                            << <<"b", "/">> >>, << <<"/", "a">> >>,
                            << <<"/", "a", "/">> >>, << <<"/", "a", "/", "b">> >>,
                            << <<"f">> >>, << <<"x">> >>,
                            << <<"a", BACKSLASH, "b">> >>,
                            << <<"a">>, <<"b">> >> } }

\* The empty search string is find("") called on the object, as the tests call
\* the commands; run() passes whole words only.
FindLines ==
    { Line(FIND, a) : a \in { << <<>> >>, << <<"f">> >>, << <<"b">> >>,
                              << <<"a", "b">> >>, <<>> } }

CpLines ==
    { Line(CP, a) : a \in { << <<"f">>, DestNew >>, << <<"f">>, DestOld >>,
                            << <<"x">>, DestOld >>, << <<"x">>, DestNew >>,
                            << <<"a">>, DestNew >>, << <<"f">>, DestBad >>,
                            << <<"a", "/">>, DestNew >>,
                            << <<"/", "a", "/", "b", "/", "f">>, DestNew >>,
                            << <<"f">> >> } }

UnknownLines == { Line(<<"p", "w", "d">>, <<>>) }

\* No line read yet.
NoLine == [line |-> Line(<<"-">>, <<>>), current_path |-> <<>>,
           disk |-> InitialDisk, log |-> <<>>]

Init ==
    /\ \E members \in Archives : fs_tree = load_tar_fs(members)
    /\ current_path = ROOT
    /\ log = <<>>
    /\ log_file = <<>>
    /\ disk = InitialDisk
    /\ out = [printed |-> <<>>, returned |-> <<>>]
    /\ status = "running"
    /\ reads = 0
    /\ last = NoLine
    /\ prev = NoLine

\* input() returns a line: the part of one pass through the loop of run()
\* that every command shares.
Read(line) ==
    /\ status = "running"
    /\ reads < MaxCmds
    /\ reads' = reads + 1
    /\ last' = [line |-> line, current_path |-> current_path,
                disk |-> disk, log |-> log]
    /\ prev' = last
    /\ UNCHANGED fs_tree

\* self.log_action(action, details), with the rewrite of the log file
Logged(action, details) ==
    /\ log' = log_action(log, action, details)
    /\ log_file' = prettify_log(log')

\* A call self.f(*args) whose argument count f does not accept raises
\* TypeError, which nothing catches: run() and the process end.
Crash ==
    /\ status' = "crashed"
    /\ out' = [printed |-> <<>>, returned |-> <<>>]
    /\ UNCHANGED <<current_path, log, log_file, disk>>

RunEmpty ==
    /\ Read(EmptyLine)
    /\ out' = [printed |-> <<>>, returned |-> <<>>]
    /\ UNCHANGED <<current_path, log, log_file, disk, status>>

\* Mutant of RunLs: listing a path also moves the cursor to it.
RunLs_moves_cursor ==
    \E line \in LsLines :
        /\ Read(line)
        /\ IF Len(line.args) > 1
           THEN Crash
           ELSE LET r == ls(fs_tree, current_path, line.args)
                IN  /\ out' = [printed |-> r.printed, returned |-> <<>>]
                    /\ Logged("ls", r.details)
                    /\ current_path' = r.details.values[1]
                    /\ UNCHANGED <<disk, status>>

RunLs ==
    \E line \in LsLines :
        /\ Read(line)
        /\ IF Len(line.args) > 1
           THEN Crash
           ELSE LET r == ls(fs_tree, current_path, line.args)
                IN  /\ out' = [printed |-> r.printed, returned |-> <<>>]
                    /\ Logged("ls", r.details)
                    /\ UNCHANGED <<current_path, disk, status>>

RunCd ==
    \E line \in CdLines :
        /\ Read(line)
        /\ IF Len(line.args) > 1
           THEN Crash
           ELSE LET r == cd(fs_tree, current_path, line.args)
                IN  /\ current_path' = r.current_path
                    /\ out' = [printed |-> r.printed, returned |-> <<>>]
                    /\ Logged("cd", r.details)
                    /\ UNCHANGED <<disk, status>>

RunFind ==
    \E line \in FindLines :
        /\ Read(line)
        /\ IF Len(line.args) # 1
           THEN Crash
           ELSE LET r == find(fs_tree, line.args[1])
                IN  /\ out' = [printed |-> r.printed, returned |-> r.returned]
                    /\ Logged("find", r.details)
                    /\ UNCHANGED <<current_path, disk, status>>

RunCp ==
    \E line \in CpLines :
        /\ Read(line)
        /\ IF Len(line.args) # 2
           THEN Crash
           ELSE LET r == cp(fs_tree, disk, line.args[1], line.args[2])
                IN  IF r.raised
                    THEN Crash
                    ELSE /\ disk' = r.disk
                         /\ out' = [printed |-> r.printed, returned |-> <<>>]
                         /\ Logged("cp", r.details[1])
                         /\ UNCHANGED <<current_path, status>>

RunExit ==
    /\ Read(Line(EXIT, <<>>))
    /\ Logged("exit", fmt("User exited the session", <<>>))
    /\ status' = "exited"
    /\ out' = [printed |-> <<>>, returned |-> <<>>]
    /\ UNCHANGED <<current_path, disk>>

RunUnknown ==
    \E line \in UnknownLines :
        /\ Read(line)
        /\ out' = [printed |-> <<fmt("Unknown command: {}", <<line.command>>)>>,
                   returned |-> <<>>]
        /\ Logged("unknown_command", fmt("Command: {}", <<line.command>>))
        /\ UNCHANGED <<current_path, disk, status>>

Next ==
    \/ RunEmpty
    \/ RunLs
    \/ RunCd
    \/ RunFind
    \/ RunCp
    \/ RunExit
    \/ RunUnknown

Spec == Init /\ [][Next]_vars

\* ------------------------------------------------- vocabulary of the claims
\* Paths as the specification speaks of them: a path is its sequence of
\* segments, root has none, the parent drops the last one.

RECURSIVE Segs(_)
Segs(p) ==
    IF p = <<>> THEN <<>>
    ELSE IF Head(p) = SLASH THEN Segs(Tail(p))
    ELSE LET stop == IF \E i \in 1..Len(p) : p[i] = SLASH
                     THEN Min({i \in 1..Len(p) : p[i] = SLASH})
                     ELSE Len(p) + 1
         IN  <<SubSeq(p, 1, stop - 1)>> \o Segs(SubSeq(p, stop, Len(p)))

Front(s) == SubSeq(s, 1, Len(s) - 1)

\* The path string of a segment sequence: "/" for root, else a/b/c
RECURSIVE PathOf(_)
PathOf(segs) ==
    IF segs = <<>> THEN ROOT
    ELSE IF Len(segs) = 1 THEN segs[1]
    ELSE PathOf(Front(segs)) \o <<SLASH>> \o segs[Len(segs)]

\* The resolved target of an argument: from the archive root when the
\* argument is absolute, joined with the current path otherwise; a backslash
\* separates segments as a slash does.
Resolve(cur, arg) ==
    LET given == replace(arg, BACKSLASH, SLASH)
    IN  IF given # <<>> /\ given[1] = SLASH THEN Segs(given)
        ELSE Segs(cur) \o Segs(given)

EntryKeys == {fs_tree[i].key : i \in 1..Len(fs_tree)}
IsDirectoryEntry(segs) ==
    \E i \in 1..Len(fs_tree) :
        /\ fs_tree[i].key = PathOf(segs) /\ segs # <<>> /\ fs_tree[i].member.isdir
IsFileEntry(segs) ==
    \E i \in 1..Len(fs_tree) :
        /\ fs_tree[i].key = PathOf(segs) /\ segs # <<>> /\ ~fs_tree[i].member.isdir

\* The command run last, when it was dispatched with an accepted argument count
Ran(command) == last.line.command = command /\ status # "crashed"
Arg(i) == last.line.args[i]
NewRecords == SubSeq(log, Len(last.log) + 1, Len(log))
OneRecord(type) ==
    /\ Len(log) = Len(last.log) + 1
    /\ SubSeq(log, 1, Len(last.log)) = last.log
    /\ log[Len(log)].type = type
LastRecord == log[Len(log)]

\* ----------------------------------------------------------------- claims

\* C1: a cd with an argument other than ".." changes current_path only when
\* the argument resolved against the current path is a Directory entry, and
\* then current_path is that entry's path; when the resolved target is missing
\* or a File, current_path stays and exactly one cd record is logged whose
\* detail holds the argument as the user gave it, not the resolved path.
C1_CdOnlyToDirectory ==
    (Ran(CD) /\ Len(last.line.args) = 1 /\ Arg(1) # DOTDOT) =>
        LET target == Resolve(last.current_path, Arg(1))
        IN  /\ current_path # last.current_path =>
                 IsDirectoryEntry(target) /\ current_path = PathOf(target)
            /\ ~IsDirectoryEntry(target) =>
                 /\ current_path = last.current_path
                 /\ OneRecord("cd")
                 /\ LastRecord.details.text = "Failed to change directory to {}"
                 /\ LastRecord.details.values = <<Arg(1)>>

\* C1 witness: after a successful cd into a, a cd to a missing name x from
\* there failed, and the record names x, not a/x.
C1_Witness ==
    /\ Ran(CD) /\ last.line.args = << <<"x">> >>
    /\ prev.line.args = << <<"a">> >> /\ prev.current_path = ROOT
    /\ last.current_path = <<"a">> /\ current_path = <<"a">>
    /\ LastRecord.details.values = << <<"x">> >>

\* C2: cd("..") at root fails: current_path stays "/" and a cd failure record
\* is logged; from any other current_path it moves to the parent path (root
\* for a single segment), which has fewer segments than before.
C2_CdUp ==
    (Ran(CD) /\ last.line.args = <<DOTDOT>>) =>
        IF last.current_path = ROOT
        THEN /\ current_path = ROOT
             /\ OneRecord("cd")
             /\ LastRecord.details = fmt("Failed to move up from root", <<>>)
             /\ out.printed = <<fmt("Already at the root directory", <<>>)>>
        ELSE /\ Segs(last.current_path) # <<>>
             /\ current_path = PathOf(Front(Segs(last.current_path)))
             /\ Len(Segs(current_path)) < Len(Segs(last.current_path))
             /\ OneRecord("cd")
             /\ LastRecord.details = fmt("Path: {}", <<current_path>>)

\* C2 witness: cd("..") from a/b arrived at a.
C2_Witness ==
    /\ Ran(CD) /\ last.line.args = <<DOTDOT>>
    /\ last.current_path = <<"a", "/", "b">> /\ current_path = <<"a">>

\* The names of the Directory entries one level below a path
ChildDirectories(cur) ==
    { Segs(k)[Len(Segs(k))] :
        k \in {k \in EntryKeys : /\ Segs(k) # <<>>
                                 /\ Front(Segs(k)) = Segs(cur)
                                 /\ IsDirectoryEntry(Segs(k))} }

\* C3: round trip: from every reachable current_path P, for every X naming a
\* Directory entry one level below P, cd(X) followed by cd("..") ends at P;
\* and whenever the last two commands were such a pair, the session is back
\* where it was before them.
C3_RoundTrip ==
    /\ \A X \in ChildDirectories(current_path) :
          LET there == cd(fs_tree, current_path, <<X>>).current_path
          IN  /\ there # current_path
              /\ cd(fs_tree, there, <<DOTDOT>>).current_path = current_path
    /\ ( /\ Ran(CD) /\ last.line.args = <<DOTDOT>>
         /\ prev.line.command = CD /\ Len(prev.line.args) = 1
         /\ prev.line.args[1] \in ChildDirectories(prev.current_path) )
       => current_path = prev.current_path

\* C3 witness: cd a then cd .. from root, back at root, in the archive where
\* a, once entered, has a child directory b to round-trip through as well.
C3_Witness ==
    /\ Ran(CD) /\ last.line.args = <<DOTDOT>>
    /\ prev.line.command = CD /\ prev.line.args = << <<"a">> >>
    /\ prev.current_path = ROOT /\ last.current_path = <<"a">>
    /\ current_path = ROOT
    /\ <<"b">> \in ChildDirectories(<<"a">>)

\* C4 (as claimed): cd with no argument, from any current_path, succeeds and
\* sets current_path to root.
C4_CdDefaultsToRoot ==
    (Ran(CD) /\ last.line.args = <<>>) =>
        /\ current_path = ROOT
        /\ OneRecord("cd")
        /\ LastRecord.details = fmt("Path: {}", <<ROOT>>)

\* The basenames of the entries whose parent is the path with these segments,
\* in the order of the Index.
RECURSIVE ChildNamesFrom(_, _)
ChildNamesFrom(i, segs) ==
    IF i > Len(fs_tree) THEN <<>>
    ELSE LET ks == Segs(fs_tree[i].key)
         IN  (IF ks # <<>> /\ Front(ks) = segs THEN <<ks[Len(ks)]>> ELSE <<>>)
             \o ChildNamesFrom(i + 1, segs)
ChildNames(segs) == ChildNamesFrom(1, segs)

\* The names a listing printed, one per line
Names(printed) == [i \in 1..Len(printed) |-> printed[i].values[1]]
Count(x, seq) == Cardinality({i \in 1..Len(seq) : seq[i] = x})

\* The absolute spelling of a path: "/" followed by its segments
Absolute(segs) == IF segs = <<>> THEN ROOT ELSE <<SLASH>> \o PathOf(segs)

\* C5: for every entry e, ls of e's parent directory (given from the archive
\* root, or as no argument when the cursor is there) prints basename(e.path)
\* exactly once; and ls of a path prints exactly the basenames of the entries
\* whose parent is that path, one level only, in Index order.
C5_LsOneLevel ==
    /\ \A k \in EntryKeys :
          LET parent == Front(Segs(k))
              name   == Segs(k)[Len(Segs(k))]
              listed == Names(ls(fs_tree, current_path, <<Absolute(parent)>>).printed)
          IN  /\ Count(name, listed) = 1
              /\ listed = ChildNames(parent)
              /\ Segs(current_path) = parent =>
                    Count(name, Names(ls(fs_tree, current_path, <<>>).printed)) = 1
    /\ \A k \in EntryKeys :
          Names(ls(fs_tree, current_path, <<Absolute(Segs(k))>>).printed)
              = ChildNames(Segs(k))
    /\ (Ran(LS) /\ (last.line.args = <<>> \/ Arg(1)[1] = SLASH)) =>
          LET segs == IF last.line.args = <<>> THEN Segs(last.current_path)
                      ELSE Segs(Arg(1))
          IN  Names(out.printed) = ChildNames(segs)

\* C5 witness: ls with no argument at a printed b and f, the two entries one
\* level below a, and not a/b/f below them.
C5_Witness ==
    /\ Ran(LS) /\ last.line.args = <<>> /\ last.current_path = <<"a">>
    /\ Names(out.printed) = << <<"b">>, <<"f">> >>
    /\ <<"a", "/", "b", "/", "f">> \in EntryKeys

\* C6 (as claimed): ls with a relative argument R from a non-root current_path
\* P lists the entries whose parent is P/R.
C6_LsRelativeJoined ==
    (Ran(LS) /\ Len(last.line.args) = 1 /\ Arg(1)[1] # SLASH
        /\ last.current_path # ROOT) =>
        Names(out.printed) = ChildNames(Resolve(last.current_path, Arg(1)))

\* s occurs in t as a substring
Infix(s, t) ==
    \E a \in 0..Len(t) :
        /\ a + Len(s) <= Len(t)
        /\ \A i \in 1..Len(s) : t[a + i] = s[i]

\* The final segment of an Index path
FinalSegment(k) == IF Segs(k) = <<>> THEN <<>> ELSE Segs(k)[Len(Segs(k))]

\* r is seq restricted to the elements satisfying Keep, order kept
RECURSIVE Matching(_, _)
Matching(i, s) ==
    IF i > Len(fs_tree) THEN <<>>
    ELSE (IF Infix(s, FinalSegment(fs_tree[i].key)) THEN <<fs_tree[i].key>> ELSE <<>>)
         \o Matching(i + 1, s)

SearchStrings == { <<>>, <<"f">>, <<"b">>, <<"a">>, <<"a", "b">>, <<"b", "a">>,
                   <<"x">>, <<SLASH>>, <<"f", "a", "b">> }

\* C7: find(s) returns exactly the Index paths whose basename contains s, in
\* Index order, for the empty string (every entry), for strings matching
\* nothing, and whatever current_path is.
C7_FindByBasename ==
    /\ \A s \in SearchStrings : find(fs_tree, s).returned = Matching(1, s)
    /\ find(fs_tree, <<>>).returned = [i \in 1..Len(fs_tree) |-> fs_tree[i].key]
    /\ (Ran(FIND)) =>
          /\ out.returned = Matching(1, Arg(1))
          /\ current_path = last.current_path
          /\ Names(out.printed) =
                IF out.returned = <<>> THEN <<Arg(1)>> ELSE out.returned

\* C7 witness: find("b") run below the root, in a/b, returned a/b and b and
\* not b/a, whose directory is named b and whose basename is a.
C7_Witness ==
    /\ Ran(FIND) /\ Arg(1) = <<"b">> /\ last.current_path = <<"a", "/", "b">>
    /\ out.returned = << <<"a", "/", "b">>, <<"b">> >>
    /\ <<"b", "/", "a">> \in EntryKeys

\* The cp records by outcome
DestinationExistsRecord(destination) ==
    [type |-> "cp",
     details |-> fmt("Failed to copy to {} as it already exists", <<destination>>)]
NotFoundRecord(source, destination) ==
    [type |-> "cp",
     details |-> fmt("Failed to copy from {} to {}", <<source, destination>>)]
IsADirectoryRecord(source, destination) ==
    [type |-> "cp",
     details |-> fmt("Failed to copy directory {} to {}", <<source, destination>>)]

\* cp was run with a source and a destination
RanCp == last.line.command = CP /\ Len(last.line.args) = 2

\* The source argument, leading slashes aside, is exactly the path of a File
\* entry of the Index.
SourceIsFileFromRoot(source) ==
    \E n \in 0..Len(source) :
        LET rest == SubSeq(source, n + 1, Len(source))
        IN  /\ \A i \in 1..n : source[i] = SLASH
            /\ rest # <<>> /\ rest[1] # SLASH
            /\ \E i \in 1..Len(fs_tree) :
                  fs_tree[i].key = rest /\ ~fs_tree[i].member.isdir

\* C8 (as claimed): whatever the source, a cp to a destination that exists
\* leaves its bytes as they were and logs the DestinationExists failure.
C8_NeverOverwritesAlwaysReports ==
    (RanCp /\ last.disk[Arg(2)].kind = "file") =>
        /\ disk[Arg(2)] = last.disk[Arg(2)]
        /\ OneRecord("cp")
        /\ LastRecord = DestinationExistsRecord(Arg(2))

\* C8 (amended): a cp to a destination that exists leaves the destination's
\* bytes (and the rest of the filesystem) as they were, returns to the loop
\* and logs exactly one cp failure record: DestinationExists when the source
\* argument, leading slashes aside, is exactly the path of a File entry, and
\* otherwise the failure of the source, which is checked first.
C8_NeverOverwrites ==
    (RanCp /\ last.disk[Arg(2)].kind = "file") =>
        /\ disk = last.disk
        /\ status = "running"
        /\ OneRecord("cp")
        /\ IF SourceIsFileFromRoot(Arg(1))
           THEN /\ LastRecord = DestinationExistsRecord(Arg(2))
                /\ out.printed = <<fmt("Destination already exists: {}", <<Arg(2)>>)>>
           ELSE LastRecord \in {NotFoundRecord(Arg(1), Arg(2)),
                                IsADirectoryRecord(Arg(1), Arg(2))}

\* C8 witness: cp of the File entry f onto the existing file was refused and
\* the existing file still holds its bytes.
C8_Witness ==
    /\ RanCp /\ Arg(1) = <<"f">> /\ Arg(2) = DestOld
    /\ disk[DestOld] = File(OldBytes)
    /\ LastRecord = DestinationExistsRecord(DestOld)

\* C9 (as claimed): from a non-root current_path P, cp(R, dest) of a relative
\* R to a destination that does not exist copies the File entry P/R when there
\* is one, and fails NotFound when P/R is not in the Index, whether or not
\* the archive root has an entry R.
C9_CpRelativeToCursor ==
    (RanCp /\ Arg(1)[1] # SLASH /\ last.current_path # ROOT
        /\ last.disk[Arg(2)].kind = "absent") =>
        LET target == Resolve(last.current_path, Arg(1))
        IN  /\ IsFileEntry(target) =>
                 disk[Arg(2)] = File(get(fs_tree, PathOf(target)).data)
            /\ (~IsFileEntry(target) /\ ~IsDirectoryEntry(target)) =>
                 /\ disk = last.disk
                 /\ OneRecord("cp")
                 /\ LastRecord = NotFoundRecord(Arg(1), Arg(2))

\* C10 (as claimed): every command line other than exit returns control to
\* the read loop with a log record of its outcome written: the session is
\* still running and the log, and the log file, are one record longer.
C10_NoCommandEndsSession ==
    (last # NoLine /\ last.line # EmptyLine /\ last.line.command # EXIT) =>
        /\ status = "running"
        /\ Len(log) = Len(last.log) + 1
        /\ log_file = log

\* The record type run() and the commands log for a command word
KindOf(command) ==
    IF command = LS THEN "ls"
    ELSE IF command = CD THEN "cd"
    ELSE IF command = FIND THEN "find"
    ELSE IF command = CP THEN "cp"
    ELSE IF command = EXIT THEN "exit"
    ELSE "unknown_command"

\* A command (a line with a command word) was invoked last
Invoked == last # NoLine /\ last.line # EmptyLine

\* C11 (as claimed): every invocation of ls, cd, find, cp, exit or an
\* unrecognized command, successful or failed, appends exactly one record of
\* that command's kind and leaves the earlier records as they were, so that
\* the log holds as many records as commands were invoked.
C11_OneRecordPerCommand ==
    Invoked =>
        /\ OneRecord(KindOf(last.line.command))
        /\ (\A i \in 1..Len(last.log) : log[i] = last.log[i])
        /\ (prev.line # EmptyLine /\ last.line # EmptyLine) => Len(log) = reads

\* The source of a cp names one entry whichever way it is resolved: it is
\* absolute, or the cursor is at root.
SourceUnambiguous == Arg(1)[1] = SLASH \/ last.current_path = ROOT

\* C12: when the source is a File entry and nothing exists at the
\* destination (a path where a file can be created), cp creates the
\* destination with exactly the bytes of that entry, changes nothing else on
\* the filesystem, and logs one cp success record naming the source and the
\* destination as given.
C12_CpCopiesBytes ==
    (RanCp /\ SourceUnambiguous
        /\ IsFileEntry(Resolve(last.current_path, Arg(1)))
        /\ last.disk[Arg(2)].kind = "absent") =>
        LET entry == CHOOSE i \in 1..Len(fs_tree) :
                        fs_tree[i].key = PathOf(Resolve(last.current_path, Arg(1)))
        IN  /\ status = "running"
            /\ disk[Arg(2)].kind = "file"
            /\ disk[Arg(2)].bytes = fs_tree[entry].member.data
            /\ \A d \in DOMAIN disk : d # Arg(2) => disk[d] = last.disk[d]
            /\ OneRecord("cp")
            /\ LastRecord.details.text = "Copied from {} to {}"
            /\ LastRecord.details.values = <<Arg(1), Arg(2)>>
            /\ out.printed = <<fmt("File copied from {} to {}", <<Arg(1), Arg(2)>>)>>

\* C12 witness: from the cursor a/b, cp of /a/b/f created the destination
\* with the bytes of that entry.
C12_Witness ==
    /\ RanCp /\ Arg(1) = <<"/", "a", "/", "b", "/", "f">> /\ Arg(2) = DestNew
    /\ last.current_path = <<"a", "/", "b">>
    /\ last.disk[DestNew] = Absent
    /\ disk[DestNew] = File(<<2>>)
    /\ LastRecord.details.text = "Copied from {} to {}"

\* C13 (as claimed): a cp whose source is missing from the Index fails
\* NotFound, and one whose source names a Directory entry, with or without a
\* trailing slash, fails IsADirectory; either way nothing is created at the
\* destination and one cp failure record is logged.
C13_CpSourceMustBeFile ==
    (last.line.command = CP /\ Len(last.line.args) = 2 /\ SourceUnambiguous) =>
        LET target == Resolve(last.current_path, Arg(1))
        IN  /\ (~IsFileEntry(target) /\ ~IsDirectoryEntry(target)) =>
                 /\ disk = last.disk
                 /\ OneRecord("cp")
                 /\ LastRecord = NotFoundRecord(Arg(1), Arg(2))
            /\ IsDirectoryEntry(target) =>
                 /\ disk = last.disk
                 /\ OneRecord("cp")
                 /\ LastRecord = IsADirectoryRecord(Arg(1), Arg(2))

\* C14: ls always succeeds: with no argument or any one argument, a path
\* naming no entry or a File included, ls raises nothing and returns to the
\* loop, prints nothing when no entry has that path as its parent, and appends
\* exactly one ls record whose detail is "Path: " followed by the path as ls
\* was given it (current_path when it was given none).
C14_LsAlwaysSucceeds ==
    /\ (last.line.command = LS /\ Len(last.line.args) <= 1) =>
          LET path == IF last.line.args = <<>> THEN last.current_path ELSE Arg(1)
          IN  /\ status = "running"
              /\ OneRecord("ls")
              /\ LastRecord.details.text = "Path: {}"
              /\ LastRecord.details.values = <<path>>
              /\ log_file = log
              /\ ( /\ ChildNames(Segs(path)) = <<>>
                   /\ ChildNames(Resolve(last.current_path, path)) = <<>> )
                 => out.printed = <<>>
    /\ \A k \in EntryKeys \cup {<<"x">>, <<"a", "/", "x">>} :
          ChildNames(Segs(k)) = <<>> =>
             ls(fs_tree, current_path, <<Absolute(Segs(k))>>).printed = <<>>

\* C14 witness: below the root, ls of the missing path x printed nothing and
\* logged "Path: x".
C14_Witness ==
    /\ last.line = Line(LS, << <<"x">> >>) /\ last.current_path = <<"a", "/", "b">>
    /\ status = "running" /\ out.printed = <<>>
    /\ LastRecord = [type |-> "ls", details |-> fmt("Path: {}", << <<"x">> >>)]

\* The paths (other than root) that have no entry and are the parent of one
ImplicitDirectories ==
    { Front(Segs(k)) : k \in EntryKeys } \ ({ Segs(k) : k \in EntryKeys } \cup {<<>>})

\* C15: for a path P that has no entry of its own and is the parent of an
\* entry, cd(P) fails and leaves current_path where it was, and ls(P) lists
\* the basenames of the entries whose parent is P: no directory is
\* synthesized for P.
C15_ImplicitDirectory ==
    /\ \A P \in ImplicitDirectories :
          LET tried  == cd(fs_tree, current_path, <<Absolute(P)>>)
              listed == ls(fs_tree, current_path, <<Absolute(P)>>)
          IN  /\ tried.current_path = current_path
              /\ tried.details = fmt("Failed to change directory to {}", <<Absolute(P)>>)
              /\ current_path = ROOT =>
                    cd(fs_tree, current_path, <<PathOf(P)>>).current_path = ROOT
              /\ Names(listed.printed) = ChildNames(P)
              /\ listed.printed # <<>>
    /\ (Ran(CD) /\ Len(last.line.args) = 1 /\ Arg(1) # DOTDOT
          /\ Resolve(last.current_path, Arg(1)) \in ImplicitDirectories) =>
          /\ current_path = last.current_path
          /\ LastRecord.details = fmt("Failed to change directory to {}", <<Arg(1)>>)
    /\ (Ran(LS) /\ Len(last.line.args) = 1 /\ Arg(1)[1] = SLASH
          /\ Segs(Arg(1)) \in ImplicitDirectories) =>
          Names(out.printed) = ChildNames(Segs(Arg(1)))

\* C15 witness: in the archive with a/b and no a, ls /a printed b and the cd a
\* after it failed at root.
C15_Witness ==
    /\ <<"a">> \notin EntryKeys /\ <<"a", "/", "b">> \in EntryKeys
    /\ prev.line = Line(LS, << <<"/", "a">> >>)
    /\ last.log[Len(last.log)].type = "ls"
    /\ Ran(CD) /\ last.line.args = << <<"a">> >>
    /\ last.current_path = ROOT /\ current_path = ROOT
    /\ LastRecord.details.text = "Failed to change directory to {}"
    /\ Names(ls(fs_tree, current_path, << <<"/", "a">> >>).printed) = << <<"b">> >>

\* C16: current_path is changed by cd alone and the Index by nothing: a step
\* of ls, find, cp (copying or failing), exit, an unrecognized command or an
\* empty line leaves current_path as it was, and no step, cp included, adds,
\* removes or changes an entry of the Index.
C16_Frame ==
    [][ /\ fs_tree' = fs_tree
        /\ last'.line.command # CD => current_path' = current_path ]_vars

\* C16 witness: a cp run at the cursor a/b created its destination, and the
\* cursor and the Index are what they were.
C16_Witness ==
    /\ RanCp /\ last.current_path = <<"a", "/", "b">>
    /\ last.disk[DestNew] = Absent /\ disk[DestNew].kind = "file"
    /\ current_path = <<"a", "/", "b">>
    /\ fs_tree = load_tar_fs(ArchiveNested)

\* C17 (as claimed): exit appends exactly one exit record and ends the read
\* loop, which ends in no other way: a session that is over was ended by an
\* exit, that exit is the line run last (no command ran after it), and its
\* record is the last of the log.
C17_ExitEndsLoop ==
    /\ \A i \in 1..Len(log) : log[i].type = "exit" => i = Len(log)
    /\ last.line.command = EXIT =>
          /\ status = "exited"
          /\ OneRecord("exit")
          /\ LastRecord.details = fmt("User exited the session", <<>>)
    /\ status # "running" =>
          /\ last.line.command = EXIT
          /\ log # <<>>
          /\ log[Len(log)].type = "exit"

\* A normalized cursor: "/" itself, or a non-empty path that neither starts
\* nor ends with a slash and holds no backslash and no empty segment.
Normalized(p) ==
    \/ p = ROOT
    \/ /\ p # <<>>
       /\ p[1] # SLASH
       /\ p[Len(p)] # SLASH
       /\ \A i \in 1..Len(p) : p[i] # BACKSLASH
       /\ \A i \in 1..(Len(p) - 1) : ~(p[i] = SLASH /\ p[i + 1] = SLASH)

\* C18: current_path is always normalized: "/" at the start and, after any
\* commands over an archive of relative forward-slash paths, "/" or a
\* non-empty path with no leading slash, no trailing slash, no backslash and
\* no empty segment.
C18_CursorNormalized ==
    /\ Normalized(current_path)
    /\ reads = 0 => current_path = ROOT
    /\ Normalized(cd(fs_tree, current_path, <<DOTDOT>>).current_path)
    /\ \A line \in CdLines :
          Len(line.args) = 1 =>
             Normalized(cd(fs_tree, current_path, line.args).current_path)

\* C18 witness: the cursor is a/b after a cd whose argument was written with
\* a backslash, a\b.
C18_Witness ==
    /\ Ran(CD) /\ last.line.args = << <<"a", BACKSLASH, "b">> >>
    /\ last.current_path = ROOT
    /\ current_path = <<"a", "/", "b">>

\* C19 (as claimed): a cd whose argument names a Directory entry D with a
\* trailing slash, relative ("D/") or absolute ("/D/"), does what the same
\* argument without the slash does: it succeeds and sets current_path to
\* D's path.
C19_TrailingSlashStripped ==
    (last.line.command = CD /\ Len(last.line.args) = 1
        /\ Len(Arg(1)) > 1 /\ Arg(1)[Len(Arg(1))] = SLASH
        /\ IsDirectoryEntry(Resolve(last.current_path, Arg(1)))) =>
        /\ current_path = PathOf(Resolve(last.current_path, Arg(1)))
        /\ current_path =
              cd(fs_tree, last.current_path, <<rstrip(Arg(1), SLASH)>>).current_path
        /\ OneRecord("cd")
        /\ LastRecord.details = fmt("Path: {}", <<current_path>>)

\* segs is a proper ancestor of the path of a Directory entry
AboveDirectory(segs) ==
    \E k \in EntryKeys :
        /\ IsDirectoryEntry(Segs(k))
        /\ Len(segs) < Len(Segs(k))
        /\ SubSeq(Segs(k), 1, Len(segs)) = segs

\* C20 (as claimed): current_path is always root or the path of a Directory
\* entry; cd("..") never leaves it on a path without a Directory entry.
C20_CursorOnDirectory ==
    current_path = ROOT \/ IsDirectoryEntry(Segs(current_path))

\* C20 (amended): current_path is always root, the path of a Directory
\* entry, or a proper ancestor of the path of a Directory entry; a cd with a
\* path argument leaves it on root or a Directory entry only if it moves it,
\* and it is cd("..") alone, which goes to the parent path whether or not that
\* has an entry, that leaves it on a path a direct cd rejects.
C20_CursorOnOrAboveDirectory ==
    /\ \/ current_path = ROOT
       \/ IsDirectoryEntry(Segs(current_path))
       \/ AboveDirectory(Segs(current_path))
    /\ current_path = PathOf(Segs(current_path))
    /\ (Ran(CD) /\ last.line.args # <<DOTDOT>> /\ current_path # last.current_path) =>
          IsDirectoryEntry(Segs(current_path))
    /\ (current_path # ROOT /\ ~IsDirectoryEntry(Segs(current_path))) =>
          /\ cd(fs_tree, ROOT, <<Absolute(Segs(current_path))>>).current_path = ROOT
          /\ cd(fs_tree, ROOT, <<current_path>>).current_path = ROOT

\* C20 witness: in the archive with a/b and no a, cd /a/b and cd .. left the
\* cursor on a.
C20_Witness ==
    /\ Ran(CD) /\ last.line.args = <<DOTDOT>>
    /\ last.current_path = <<"a", "/", "b">>
    /\ current_path = <<"a">>
    /\ <<"a">> \notin EntryKeys

====
